---- MODULE Spec2Model ----
(***************************************************************************)
(* Model of the statement-normalisation and ratio engine of finapp         *)
(* (src/finance.py, src/main.py).                                          *)
(*                                                                         *)
(* Every function modelled here is a pure function of its arguments, so    *)
(* the state is one call frame: the operation called (op), its arguments   *)
(* (arg), its result (ret) and the position of the call (pc).  Each        *)
(* specification draws the arguments of one group of functions from a      *)
(* bounded set and applies the function as the source computes it.  The    *)
(* route handlers of src/main.py also read and write the companies table   *)
(* of the database (companies), which the pure functions leave empty.      *)
(***************************************************************************)
EXTENDS Integers, Sequences, FiniteSets, TLC

VARIABLES op, arg, ret, pc, companies

vars == <<op, arg, ret, pc, companies>>

(***************************************************************************)
(* Values.  A Python value that can sit in a DataFrame cell or be handed   *)
(* to _clean_scalar:                                                       *)
(*   none            None                                                  *)
(*   fin  n/d        a finite float, kept as the exact fraction n/d        *)
(*                   (d > 0, lowest terms)                                 *)
(*   nan, inf        float('nan'), +/-float('inf')                         *)
(*   text            a str                                                 *)
(*   list, array     a Python list / a numpy.ndarray of values             *)
(* Floats keep their range: a result whose magnitude exceeds FloatMax is   *)
(* +/-inf, as IEEE-754 division and subtraction give in Python.            *)
(***************************************************************************)
FloatMax == 100000

NoneV == [kind |-> "none"]

NaN == [kind |-> "nan"]

Inf(s) == [kind |-> "inf", sign |-> s]

PyRaise == [kind |-> "raise"]

Text(s) == [kind |-> "text", s |-> s]

ListV(items) == [kind |-> "list", items |-> items]

ArrayV(items) == [kind |-> "array", items |-> items]

Abs(i) == IF i < 0 THEN -i ELSE i

RECURSIVE GCD(_, _)
GCD(a, b) == IF b = 0 THEN a ELSE GCD(b, a % b)

\* The finite float n/d in lowest terms with a positive denominator.
Fin(n, d) ==
    LET g == GCD(Abs(n), Abs(d))
        s == IF d < 0 THEN -1 ELSE 1
    IN  [kind |-> "fin", n |-> s * (n \div g), d |-> s * (d \div g)]

IsFloat(v) == v.kind \in {"fin", "nan", "inf"}

IsFinite(v) == v.kind = "fin"

IsZero(v) == v.kind = "fin" /\ v.n = 0

\* The float nearest to the exact fraction n/d: +/-inf beyond the float range.
Round(n, d) ==
    LET f == Fin(n, d)
        q == Abs(f.n) \div f.d
        r == Abs(f.n) % f.d
    IN  IF q > FloatMax \/ (q = FloatMax /\ r # 0)
        THEN Inf(IF f.n < 0 THEN -1 ELSE 1)
        ELSE f

SignOf(v) == IF v.kind = "inf" THEN v.sign ELSE IF v.n < 0 THEN -1 ELSE 1

\* Python's a / b on two floats; b = 0.0 raises ZeroDivisionError.
PyDiv(a, b) ==
    IF IsZero(b) THEN PyRaise
    ELSE IF a.kind = "nan" \/ b.kind = "nan" THEN NaN
    ELSE IF a.kind = "inf" /\ b.kind = "inf" THEN NaN
    ELSE IF a.kind = "inf" THEN Inf(SignOf(a) * SignOf(b))
    ELSE IF b.kind = "inf" THEN Fin(0, 1)
    ELSE Round(a.n * b.d, a.d * b.n)

\* Python's a - b on two floats.
PySub(a, b) ==
    IF a.kind = "nan" \/ b.kind = "nan" THEN NaN
    ELSE IF a.kind = "inf" /\ b.kind = "inf"
         THEN (IF a.sign = b.sign THEN NaN ELSE a)
    ELSE IF a.kind = "inf" THEN a
    ELSE IF b.kind = "inf" THEN Inf(-b.sign)
    ELSE Round(a.n * b.d - b.n * a.d, a.d * b.d)

\* float(s) for a str: the numeric literals parse, anything else raises
\* ValueError.
ParseFloat(s) ==
    CASE s = "7"   -> Fin(7, 1)
      [] s = "1.5" -> Fin(3, 2)
      [] s = "nan" -> NaN
      [] s = "inf" -> Inf(1)
      [] OTHER     -> PyRaise

\* float(x): a float is itself, a str is parsed, a list raises TypeError, an
\* ndarray converts only when it holds exactly one element.
RECURSIVE PyFloat(_)
PyFloat(x) ==
    CASE IsFloat(x)        -> x
      [] x.kind = "text"   -> ParseFloat(x.s)
      [] x.kind = "array"  -> IF Len(x.items) = 1 /\ x.items[1].kind # "none"
                              THEN PyFloat(x.items[1]) ELSE PyRaise
      [] OTHER             -> PyRaise

\* _clean_scalar without the try/except around float(x).
CleanScalarNoExcept(x) ==
    IF x = NoneV THEN NoneV
    ELSE LET v == PyFloat(x)
         IN  IF v = PyRaise THEN PyRaise
             ELSE IF v.kind = "nan" \/ v.kind = "inf" THEN NoneV
             ELSE v

\* _clean_scalar without the NaN/inf test.
CleanScalarNoFiniteTest(x) ==
    IF x = NoneV THEN NoneV
    ELSE LET v == PyFloat(x)
         IN  IF v = PyRaise THEN NoneV ELSE v

_clean_scalar(x) ==
    IF x = NoneV THEN NoneV
    ELSE LET v == PyFloat(x)
         IN  IF v = PyRaise THEN NoneV
             ELSE IF v.kind = "nan" \/ v.kind = "inf" THEN NoneV
             ELSE v

_is_valid_number(x) == _clean_scalar(x) # NoneV

(***************************************************************************)
(* Inputs of the scalar sanitizer.                                         *)
(***************************************************************************)
MaxItems == 2

SmallInts == -3 .. 3

FiniteVals ==
    {Fin(n, d) : n \in SmallInts, d \in {1, 2}} \cup {Fin(FloatMax, 1), Fin(-FloatMax, 1)}

TextVals == {Text("abc"), Text(""), Text("7"), Text("1.5"), Text("nan"), Text("inf")}

ItemVals == {NoneV, NaN, Fin(5, 1), Text("abc")}

ItemSeqs == UNION {[1 .. k -> ItemVals] : k \in 0 .. MaxItems}

ContainerVals == {ListV(s) : s \in ItemSeqs} \cup {ArrayV(s) : s \in ItemSeqs}

CleanInputs ==
    {NoneV, NaN, Inf(1), Inf(-1)} \cup FiniteVals \cup TextVals \cup ContainerVals

InitClean ==
    /\ op = "_clean_scalar"
    /\ arg \in CleanInputs
    /\ ret = NoneV
    /\ pc = "call"
    /\ companies = {}

CleanScalarCall ==
    /\ pc = "call"
    /\ op = "_clean_scalar"
    /\ ret' = _clean_scalar(arg)
    /\ pc' = "done"
    /\ UNCHANGED <<op, arg, companies>>

NextClean == CleanScalarCall

SpecClean == InitClean /\ [][NextClean]_vars

(***************************************************************************)
(* C1: for every input, _clean_scalar returns None or a finite float and   *)
(* does not raise; a NaN, an infinity, a non-numeric str and a list give   *)
(* None; a finite float is returned unchanged.                             *)
(***************************************************************************)
NonNumericInput(x) ==
    \/ x.kind \in {"nan", "inf", "list"}
    \/ x.kind = "text" /\ x.s \in {"abc", ""}

C1_CleanScalarTotal ==
    (op = "_clean_scalar" /\ pc = "done") =>
        /\ ret = NoneV \/ ret.kind = "fin"
        /\ ret # PyRaise
        /\ NonNumericInput(arg) => ret = NoneV
        /\ arg.kind = "fin" => ret = arg

C1_Witness ==
    /\ op = "_clean_scalar" /\ pc = "done"
    /\ arg = Inf(-1)
    /\ ret = NoneV

(***************************************************************************)
(* Labels.  A row label is a str; it is kept as its sequence of characters *)
(* so that str.lower() and the substring test `a in b` are computed.       *)
(***************************************************************************)
UpperChars ==
    <<"A", "B", "C", "D", "E", "F", "G", "H", "I", "J", "K", "L", "M",
      "N", "O", "P", "Q", "R", "S", "T", "U", "V", "W", "X", "Y", "Z">>

LowerChars ==
    <<"a", "b", "c", "d", "e", "f", "g", "h", "i", "j", "k", "l", "m",
      "n", "o", "p", "q", "r", "s", "t", "u", "v", "w", "x", "y", "z">>

LowerChar(c) ==
    IF \E i \in 1 .. 26 : UpperChars[i] = c
    THEN LowerChars[CHOOSE i \in 1 .. 26 : UpperChars[i] = c]
    ELSE c

\* str.lower()
Lower(s) == [i \in 1 .. Len(s) |-> LowerChar(s[i])]

\* sub in s
Contains(sub, s) ==
    \E k \in 0 .. (Len(s) - Len(sub)) :
        \A i \in 1 .. Len(sub) : s[k + i] = sub[i]

\* The candidate labels of compute_ratios.
\* "Total Revenue"
L_TotalRevenue ==
    <<"T", "o", "t", "a", "l", " ", "R", "e", "v", "e", "n", "u", "e">>

\* "TotalRevenue"
L_TotalRevenueNS ==
    <<"T", "o", "t", "a", "l", "R", "e", "v", "e", "n", "u", "e">>

\* "Revenue"
L_Revenue ==
    <<"R", "e", "v", "e", "n", "u", "e">>

\* "Net Income"
L_NetIncome ==
    <<"N", "e", "t", " ", "I", "n", "c", "o", "m", "e">>

\* "NetIncome"
L_NetIncomeNS ==
    <<"N", "e", "t", "I", "n", "c", "o", "m", "e">>

\* "Net Income Common Stockholders"
L_NetIncomeCommon ==
    <<"N", "e", "t", " ", "I", "n", "c", "o", "m", "e", " ", "C", "o", "m", "m", "o", "n", " ", "S", "t", "o", "c", "k", "h", "o", "l", "d", "e", "r", "s">>

\* "Total Stockholder Equity"
L_TotalStockholderEquity ==
    <<"T", "o", "t", "a", "l", " ", "S", "t", "o", "c", "k", "h", "o", "l", "d", "e", "r", " ", "E", "q", "u", "i", "t", "y">>

\* "Total Equity"
L_TotalEquity ==
    <<"T", "o", "t", "a", "l", " ", "E", "q", "u", "i", "t", "y">>

\* "TotalEquity"
L_TotalEquityNS ==
    <<"T", "o", "t", "a", "l", "E", "q", "u", "i", "t", "y">>

\* "Total Debt"
L_TotalDebt ==
    <<"T", "o", "t", "a", "l", " ", "D", "e", "b", "t">>

\* "TotalDebt"
L_TotalDebtNS ==
    <<"T", "o", "t", "a", "l", "D", "e", "b", "t">>

\* "Long Term Debt"
L_LongTermDebt ==
    <<"L", "o", "n", "g", " ", "T", "e", "r", "m", " ", "D", "e", "b", "t">>

\* "LongTermDebt"
L_LongTermDebtNS ==
    <<"L", "o", "n", "g", "T", "e", "r", "m", "D", "e", "b", "t">>

\* "Total Current Assets"
L_TotalCurrentAssets ==
    <<"T", "o", "t", "a", "l", " ", "C", "u", "r", "r", "e", "n", "t", " ", "A", "s", "s", "e", "t", "s">>

\* "Current Assets"
L_CurrentAssets ==
    <<"C", "u", "r", "r", "e", "n", "t", " ", "A", "s", "s", "e", "t", "s">>

\* "CurrentAssets"
L_CurrentAssetsNS ==
    <<"C", "u", "r", "r", "e", "n", "t", "A", "s", "s", "e", "t", "s">>

\* "Total Current Liabilities"
L_TotalCurrentLiabilities ==
    <<"T", "o", "t", "a", "l", " ", "C", "u", "r", "r", "e", "n", "t", " ", "L", "i", "a", "b", "i", "l", "i", "t", "i", "e", "s">>

\* "Current Liabilities"
L_CurrentLiabilities ==
    <<"C", "u", "r", "r", "e", "n", "t", " ", "L", "i", "a", "b", "i", "l", "i", "t", "i", "e", "s">>

\* "CurrentLiabilities"
L_CurrentLiabilitiesNS ==
    <<"C", "u", "r", "r", "e", "n", "t", "L", "i", "a", "b", "i", "l", "i", "t", "i", "e", "s">>

REVENUE_CANDIDATES == <<L_TotalRevenue, L_TotalRevenueNS, L_Revenue>>

NET_INCOME_CANDIDATES == <<L_NetIncome, L_NetIncomeNS, L_NetIncomeCommon>>

EQUITY_CANDIDATES == <<L_TotalStockholderEquity, L_TotalEquity, L_TotalEquityNS>>

DEBT_CANDIDATES == <<L_TotalDebt, L_TotalDebtNS, L_LongTermDebt, L_LongTermDebtNS>>

CURRENT_ASSETS_CANDIDATES ==
    <<L_TotalCurrentAssets, L_CurrentAssets, L_CurrentAssetsNS>>

CURRENT_LIAB_CANDIDATES ==
    <<L_TotalCurrentLiabilities, L_CurrentLiabilities, L_CurrentLiabilitiesNS>>

(***************************************************************************)
(* Tables.  A DataFrame is its column labels, its row labels (the index)   *)
(* and its grid of cells, data[r][c]; labels need not be unique.           *)
(***************************************************************************)
Frame(columns, index, data) == [columns |-> columns, index |-> index, data |-> data]

\* pd.DataFrame()
EmptyFrame == Frame(<<>>, <<>>, <<>>)

\* DataFrame.empty: some axis has length 0.
IsEmpty(df) == Len(df.index) = 0 \/ Len(df.columns) = 0

\* pd.isna on a scalar
IsNA(v) == v.kind \in {"none", "nan"}

\* The positions of the rows labelled `label`.
RowsLabelled(df, label) == {r \in 1 .. Len(df.index) : df.index[r] = label}

Min(S) == CHOOSE x \in S : \A y \in S : x <= y

\* df.loc[label].iloc[0]: with one row labelled `label`, df.loc gives that row
\* and .iloc[0] its first cell; with several, df.loc gives the sub-table of
\* those rows and .iloc[0] its first row, every column of it, as a Series.
LocIloc0(df, label) ==
    LET rows == RowsLabelled(df, label)
    IN  IF Cardinality(rows) = 1
        THEN df.data[Min(rows)][1]
        ELSE ArrayV(df.data[Min(rows)])

\* _get_item._extract_scalar: a container gives its first non-NA element.
_extract_scalar(val) ==
    IF val.kind \in {"list", "array"}
    THEN LET arr  == val.items
             keep == {i \in 1 .. Len(arr) : ~IsNA(arr[i])}
         IN  IF Len(arr) = 0 \/ keep = {} THEN NoneV
             ELSE _clean_scalar(arr[Min(keep)])
    ELSE _clean_scalar(val)

\* The rows whose label contains `label`, case-insensitively.
FuzzyMatches(df, label) ==
    {r \in 1 .. Len(df.index) : Contains(Lower(label), Lower(df.index[r]))}

\* What one candidate yields: the exact row's scalar, else the first fuzzy
\* row's scalar, else None.
CandidateValue(df, label) ==
    LET exact   == IF RowsLabelled(df, label) # {}
                   THEN _extract_scalar(LocIloc0(df, label)) ELSE NoneV
        matches == FuzzyMatches(df, label)
    IN  IF exact # NoneV THEN exact
        ELSE IF matches # {}
             THEN _extract_scalar(LocIloc0(df, df.index[Min(matches)]))
             ELSE NoneV

\* The loop of _get_item from candidate i on.
RECURSIVE GetItemFrom(_, _, _)
GetItemFrom(df, candidates, i) ==
    IF i > Len(candidates) THEN NoneV
    ELSE LET scalar == CandidateValue(df, candidates[i])
         IN  IF scalar # NoneV THEN scalar
             ELSE GetItemFrom(df, candidates, i + 1)

_get_item(df, candidates) ==
    IF IsEmpty(df) THEN NoneV ELSE GetItemFrom(df, candidates, 1)

(***************************************************************************)
(* compute_ratios.                                                         *)
(***************************************************************************)
\* The guard of one ratio: both inputs are valid numbers and the denominator
\* is not 0.
RatioGuard(num, den) ==
    _is_valid_number(den) /\ _is_valid_number(num) /\ ~IsZero(den)

\* metrics["net_margin"]
NetMargin(revenue, net_income) ==
    IF RatioGuard(net_income, revenue)
    THEN _clean_scalar(PyDiv(net_income, revenue)) ELSE NoneV

\* metrics["roe"]
Roe(total_equity, net_income) ==
    IF RatioGuard(net_income, total_equity)
    THEN _clean_scalar(PyDiv(net_income, total_equity)) ELSE NoneV

\* debt_to_equity computed upside down.
DebtToEquityInverted(total_equity, total_debt) ==
    IF RatioGuard(total_equity, total_debt)
    THEN _clean_scalar(PyDiv(total_equity, total_debt)) ELSE NoneV

\* metrics["debt_to_equity"]
DebtToEquity(total_equity, total_debt) ==
    IF RatioGuard(total_debt, total_equity)
    THEN _clean_scalar(PyDiv(total_debt, total_equity)) ELSE NoneV

\* metrics["current_ratio"]
CurrentRatio(current_assets, current_liab) ==
    IF RatioGuard(current_assets, current_liab)
    THEN _clean_scalar(PyDiv(current_assets, current_liab)) ELSE NoneV

\* The trading sessions a series must exceed, and the look-back of the base
\* price from the end of the series.
MinHistory == 252

Lookback == 252

HasColumn(df, name) == \E c \in 1 .. Len(df.columns) : df.columns[c] = name

\* df[name].iloc[k] for k < 0 counted from the end (-1 is the last row).
ColIlocNeg(df, name, k) ==
    df.data[Len(df.index) + 1 + k][CHOOSE c \in 1 .. Len(df.columns) : df.columns[c] = name]

\* metrics["price"]: the last close, None when the lookup raises.
Price(price_hist) ==
    IF IsEmpty(price_hist) THEN NoneV
    ELSE IF ~HasColumn(price_hist, "Close") THEN NoneV
    ELSE _clean_scalar(ColIlocNeg(price_hist, "Close", -1))

\* metrics["one_year_return"]: None unless the series is longer than
\* MinHistory, nothing raises and the base price is not 0.
OneYearReturn(price_hist) ==
    IF IsEmpty(price_hist) \/ ~(Len(price_hist.index) > MinHistory) THEN NoneV
    ELSE IF ~HasColumn(price_hist, "Close") THEN NoneV
    ELSE LET px_now == PyFloat(ColIlocNeg(price_hist, "Close", -1))
             px_1y  == PyFloat(ColIlocNeg(price_hist, "Close", -Lookback))
         IN  IF px_now = PyRaise \/ px_1y = PyRaise THEN NoneV
             ELSE IF ~IsZero(px_1y)
                  THEN _clean_scalar(PySub(PyDiv(px_now, px_1y), Fin(1, 1)))
                  ELSE NoneV

MetricKeys ==
    {"revenue", "net_income", "net_margin", "roe", "debt_to_equity",
     "current_ratio", "one_year_return", "price"}

compute_ratios(income, balance, cashflow, price_hist) ==
    LET revenue        == _get_item(income, REVENUE_CANDIDATES)
        net_income     == _get_item(income, NET_INCOME_CANDIDATES)
        total_equity   == _get_item(balance, EQUITY_CANDIDATES)
        total_debt     == _get_item(balance, DEBT_CANDIDATES)
        current_assets == _get_item(balance, CURRENT_ASSETS_CANDIDATES)
        current_liab   == _get_item(balance, CURRENT_LIAB_CANDIDATES)
        metrics ==
            [revenue         |-> revenue,
             net_income      |-> net_income,
             net_margin      |-> NetMargin(revenue, net_income),
             roe             |-> Roe(total_equity, net_income),
             debt_to_equity  |-> DebtToEquity(total_equity, total_debt),
             current_ratio   |-> CurrentRatio(current_assets, current_liab),
             one_year_return |-> OneYearReturn(price_hist),
             price           |-> Price(price_hist)]
    IN  [k \in DOMAIN metrics |-> _clean_scalar(metrics[k])]

(***************************************************************************)
(* Inputs of compute_ratios: statements as the provider labels them (the   *)
(* equity row is found by the substring match, the others by an exact      *)
(* candidate), each line item missing, NaN or a number, and a price        *)
(* history around the MinHistory threshold.                                *)
(***************************************************************************)
\* "Total Equity Gross Minority Interest"
L_TotalEquityGross ==
    <<"T", "o", "t", "a", "l", " ", "E", "q", "u", "i", "t", "y", " ", "G", "r", "o", "s", "s", " ", "M", "i", "n", "o", "r", "i", "t", "y", " ", "I", "n", "t", "e", "r", "e", "s", "t">>

\* The row of a line item is not in the statement.
Missing == [kind |-> "missing"]

\* A statement of two reporting periods holding the given <<label, cell>>
\* entries whose cell is not Missing.
Statement(entries) ==
    LET kept == SelectSeq(entries, LAMBDA e : e[2] # Missing)
    IN  Frame(<<"2024", "2023">>,
              [i \in 1 .. Len(kept) |-> kept[i][1]],
              [i \in 1 .. Len(kept) |-> <<kept[i][2], Fin(1, 1)>>])

RevenueCells == {Missing, NaN, Fin(0, 1), Fin(1000, 1), Fin(1, 2)}

NetIncomeCells == {Missing, Fin(100, 1), Fin(FloatMax, 1)}

EquityCells == {Missing, Fin(0, 1), Fin(500, 1)}

DebtCells == {NaN, Fin(200, 1)}

CurrentAssetsCells == {Missing, Fin(300, 1)}

CurrentLiabCells == {Fin(0, 1), Fin(150, 1)}

IncomeStatements ==
    {Statement(<<<<L_TotalRevenue, rv>>, <<L_NetIncome, ni>>>>) :
        rv \in RevenueCells, ni \in NetIncomeCells}

BalanceSheets ==
    {Statement(<<<<L_TotalEquityGross, eq>>, <<L_TotalDebt, db>>,
                 <<L_CurrentAssets, ca>>, <<L_CurrentLiabilities, cl>>>>) :
        eq \in EquityCells, db \in DebtCells,
        ca \in CurrentAssetsCells, cl \in CurrentLiabCells}
    \cup {EmptyFrame}

\* A price history of n sessions with one column: the first, second and last
\* sessions are given, every other session is `fill`.
PriceFrame(col, n, first, second, fill, last) ==
    Frame(<<col>>,
          [i \in 1 .. n |-> i],
          [i \in 1 .. n |->
              <<IF i = n THEN last
                ELSE IF i = 1 THEN first
                ELSE IF i = 2 THEN second
                ELSE fill>>])

HistoryLengths == {0, 1, MinHistory, MinHistory + 1, MinHistory + 2}

PriceHistories ==
    {PriceFrame("Close", n, first, second, fill, last) :
        n \in HistoryLengths, first \in {Fin(0, 1), Fin(100, 1)},
        second \in {Fin(0, 1), Fin(50, 1)}, fill \in {NaN, Fin(60, 1)},
        last \in {NaN, Fin(120, 1)}}
    \cup {PriceFrame("Open", n, Fin(100, 1), Fin(50, 1), Fin(60, 1), Fin(120, 1)) :
            n \in {1, MinHistory + 1}}

RatioInputs ==
    [income : IncomeStatements, balance : BalanceSheets,
     cashflow : {EmptyFrame}, price_hist : PriceHistories]

InitRatios ==
    /\ op = "compute_ratios"
    /\ arg \in RatioInputs
    /\ ret = NoneV
    /\ pc = "call"
    /\ companies = {}

ComputeRatiosCall ==
    /\ pc = "call"
    /\ op = "compute_ratios"
    /\ ret' = compute_ratios(arg.income, arg.balance, arg.cashflow, arg.price_hist)
    /\ pc' = "done"
    /\ UNCHANGED <<op, arg, companies>>

NextRatios == ComputeRatiosCall

SpecRatios == InitRatios /\ [][NextRatios]_vars

RatiosDone == op = "compute_ratios" /\ pc = "done"

(***************************************************************************)
(* C2: compute_ratios returns a mapping with exactly the eight metric keys *)
(* and every value is None or a finite float, whatever the statements and  *)
(* the price history hold.                                                 *)
(***************************************************************************)
C2_RatioSetShape ==
    RatiosDone =>
        /\ DOMAIN ret = MetricKeys
        /\ \A k \in MetricKeys : ret[k] = NoneV \/ ret[k].kind = "fin"

\* A net margin that overflows and a NaN last close both end as None beside
\* finite revenue and net income.
C2_Witness ==
    /\ RatiosDone
    /\ ret.revenue = Fin(1, 2)
    /\ ret.net_income = Fin(FloatMax, 1)
    /\ ret.net_margin = NoneV
    /\ Len(arg.price_hist.index) = MinHistory + 1
    /\ arg.price_hist.data[MinHistory + 1][1] = NaN
    /\ ret.price = NoneV

(***************************************************************************)
(* The line items and prices a claim speaks of, read off the inputs.       *)
(***************************************************************************)
\* The first-period cell of the row labelled `label`, None without the row.
ItemCell(df, label) ==
    IF RowsLabelled(df, label) = {} THEN NoneV
    ELSE df.data[Min(RowsLabelled(df, label))][1]

Present(v) == v.kind = "fin"

\* The exact quotient of two finite numbers, b # 0.
Quotient(a, b) == Fin(a.n * b.d, a.d * b.n)

\* A fraction within the range of a float.
InFloatRange(q) == Abs(q.n) <= FloatMax * q.d

RevenueIn == ItemCell(arg.income, L_TotalRevenue)

NetIncomeIn == ItemCell(arg.income, L_NetIncome)

EquityIn == ItemCell(arg.balance, L_TotalEquityGross)

DebtIn == ItemCell(arg.balance, L_TotalDebt)

CurrentAssetsIn == ItemCell(arg.balance, L_CurrentAssets)

CurrentLiabIn == ItemCell(arg.balance, L_CurrentLiabilities)

\* The claimed ratio: present exactly when both inputs are present and the
\* denominator is not 0, and then the quotient.
ClaimedRatio(value, num, den) ==
    /\ value # NoneV <=> (Present(num) /\ Present(den) /\ ~IsZero(den))
    /\ value # NoneV => value = Quotient(num, den)

\* The same, and the quotient is within the float range.
FiniteRatio(value, num, den) ==
    /\ value # NoneV <=>
          /\ Present(num) /\ Present(den) /\ ~IsZero(den)
          /\ InFloatRange(Quotient(num, den))
    /\ value # NoneV => value = Quotient(num, den)

(***************************************************************************)
(* C3 as stated: each ratio is present exactly when its two inputs are     *)
(* present and its denominator is not 0, and is then their quotient.       *)
(* Fails: net_income / revenue beyond the float range is inf, which        *)
(* _clean_scalar turns into None.                                          *)
(***************************************************************************)
C3_Original ==
    RatiosDone =>
        /\ ClaimedRatio(ret.net_margin, NetIncomeIn, RevenueIn)
        /\ ClaimedRatio(ret.roe, NetIncomeIn, EquityIn)
        /\ ClaimedRatio(ret.debt_to_equity, DebtIn, EquityIn)
        /\ ClaimedRatio(ret.current_ratio, CurrentAssetsIn, CurrentLiabIn)

(***************************************************************************)
(* C3 amended: each ratio is present exactly when its two inputs are       *)
(* present, its denominator is not 0 and the quotient is a finite float,   *)
(* and is then that quotient; each ratio depends on its own two inputs     *)
(* only, so equity = 0 removes roe and debt_to_equity and leaves           *)
(* net_margin and current_ratio as they are.                               *)
(***************************************************************************)
C3_GuardedRatios ==
    RatiosDone =>
        /\ FiniteRatio(ret.net_margin, NetIncomeIn, RevenueIn)
        /\ FiniteRatio(ret.roe, NetIncomeIn, EquityIn)
        /\ FiniteRatio(ret.debt_to_equity, DebtIn, EquityIn)
        /\ FiniteRatio(ret.current_ratio, CurrentAssetsIn, CurrentLiabIn)

\* revenue=1000, net_income=100, equity=500, debt=200, current assets=300,
\* current liabilities=150 give 0.1, 0.2, 0.4 and 2.0.
C3_Witness ==
    /\ RatiosDone
    /\ RevenueIn = Fin(1000, 1) /\ NetIncomeIn = Fin(100, 1)
    /\ EquityIn = Fin(500, 1) /\ DebtIn = Fin(200, 1)
    /\ CurrentAssetsIn = Fin(300, 1) /\ CurrentLiabIn = Fin(150, 1)
    /\ ret.net_margin = Fin(1, 10) /\ ret.roe = Fin(1, 5)
    /\ ret.debt_to_equity = Fin(2, 5) /\ ret.current_ratio = Fin(2, 1)

\* The closing prices of the history, oldest first.
HasClose == HasColumn(arg.price_hist, "Close")

NumSessions == Len(arg.price_hist.index)

Close(i) == arg.price_hist.data[i][1]

\* last / base - 1, exactly.
ExactReturn(last, base) == Fin(last.n * base.d - base.n * last.d, last.d * base.n)

(***************************************************************************)
(* C4: with more than 252 closing prices, one_year_return is               *)
(* last / base - 1 where base is the close 252 sessions before the most    *)
(* recent one, so with exactly 253 prices base is the first price,         *)
(* whatever the prices in between are.                                     *)
(* Fails: the code reads iloc[-252], the close 251 sessions before the     *)
(* last; with 253 prices that is the second price.                         *)
(***************************************************************************)
C4_YearReturnFromFirstPrice ==
    (/\ RatiosDone /\ HasClose
     /\ NumSessions > 252
     /\ Present(Close(NumSessions - 252)) /\ ~IsZero(Close(NumSessions - 252))
     /\ Present(Close(NumSessions)))
    => ret.one_year_return = ExactReturn(Close(NumSessions), Close(NumSessions - 252))

(***************************************************************************)
(* C5: one_year_return is None for every history of 252 or fewer prices,   *)
(* and for a longer history whose base price (the close 252 sessions       *)
(* before the last) is 0; price is the last close of a non-empty history.  *)
(* Fails with C4: the code tests iloc[-252], not the base price.           *)
(***************************************************************************)
C5_YearReturnAbsent ==
    (RatiosDone /\ HasClose) =>
        /\ NumSessions <= 252 => ret.one_year_return = NoneV
        /\ (NumSessions > 252 /\ IsZero(Close(NumSessions - 252)))
              => ret.one_year_return = NoneV
        /\ NumSessions > 0 =>
              ret.price = (IF Present(Close(NumSessions))
                           THEN Close(NumSessions) ELSE NoneV)

(***************************************************************************)
(* Inputs of _get_item: tables of up to MaxRows rows and two reporting     *)
(* periods, labels that may repeat, and up to MaxCandidates candidates.    *)
(***************************************************************************)
MaxRows == 2

MaxCandidates == 2

\* "Total Revenue Adjusted"
L_TotalRevenueAdjusted ==
    <<"T", "o", "t", "a", "l", " ", "R", "e", "v", "e", "n", "u", "e", " ", "A", "d", "j", "u", "s", "t", "e", "d">>

\* "revenue"
L_revenue ==
    <<"r", "e", "v", "e", "n", "u", "e">>

LookupLabels == {L_Revenue, L_TotalRevenueAdjusted, L_revenue, L_NetIncome}

LookupCandidates == {L_Revenue, L_NetIncome}

FirstPeriodCells == {NaN, Fin(5, 1), Fin(7, 1), ListV(<<NaN, Fin(9, 1)>>)}

SecondPeriodCells == {NaN, Fin(8, 1)}

LookupRows ==
    {<<l, <<a, b>>>> : l \in LookupLabels, a \in FirstPeriodCells, b \in SecondPeriodCells}

\* The table whose rows are the given <<label, cells>> pairs.
TableOf(rows) ==
    Frame(<<"2024", "2023">>,
          [i \in 1 .. Len(rows) |-> rows[i][1]],
          [i \in 1 .. Len(rows) |-> rows[i][2]])

LookupTables ==
    {TableOf(rows) : rows \in UNION {[1 .. k -> LookupRows] : k \in 0 .. MaxRows}}

CandidateLists == UNION {[1 .. k -> LookupCandidates] : k \in 0 .. MaxCandidates}

InitLookup ==
    /\ op = "_get_item"
    /\ arg \in [df : LookupTables, candidates : CandidateLists]
    /\ ret = NoneV
    /\ pc = "call"
    /\ companies = {}

GetItemCall ==
    /\ pc = "call"
    /\ op = "_get_item"
    /\ ret' = _get_item(arg.df, arg.candidates)
    /\ pc' = "done"
    /\ UNCHANGED <<op, arg, companies>>

NextLookup == GetItemCall

SpecLookup == InitLookup /\ [][NextLookup]_vars

LookupDone == op = "_get_item" /\ pc = "done"

\* The usable value of a cell: the number it sanitizes to (for a container,
\* its first non-absent element), None when there is none.
CellValue(cell) == _extract_scalar(cell)

\* The usable first-column values of the rows labelled exactly `label`.
ExactValues(df, label) ==
    {CellValue(df.data[r][1]) : r \in RowsLabelled(df, label)} \ {NoneV}

(***************************************************************************)
(* C6: queried with the single candidate L, a table in which some row is   *)
(* labelled exactly L and has a usable first-column value returns the      *)
(* first-column value of such a row, whatever the row order and whatever   *)
(* other rows contain L as a substring.                                    *)
(* Fails when L labels several rows: df.loc[L] is then a sub-table and     *)
(* .iloc[0] its first row, so the first non-absent cell of that row in     *)
(* any column is returned, or a container cell is not unpacked.            *)
(***************************************************************************)
C6_ExactMatchFirst ==
    (/\ LookupDone
     /\ Len(arg.candidates) = 1
     /\ ExactValues(arg.df, arg.candidates[1]) # {})
    => ret \in ExactValues(arg.df, arg.candidates[1])

\* What the claim lets one candidate yield: the usable first-column value of
\* a row labelled exactly `label`; without one, the first-column value of the
\* first row whose label contains `label` case-insensitively, if usable.
ClaimedYields(df, label) ==
    IF ExactValues(df, label) # {} THEN ExactValues(df, label)
    ELSE IF FuzzyMatches(df, label) # {}
         THEN {CellValue(df.data[Min(FuzzyMatches(df, label))][1])} \ {NoneV}
         ELSE {}

\* The results the claim allows from candidate i on: what the first yielding
\* candidate yields, None when none yields.
RECURSIVE ClaimedResults(_, _, _)
ClaimedResults(df, candidates, i) ==
    IF i > Len(candidates) THEN {NoneV}
    ELSE IF ClaimedYields(df, candidates[i]) # {}
         THEN ClaimedYields(df, candidates[i])
         ELSE ClaimedResults(df, candidates, i + 1)

(***************************************************************************)
(* C7: _get_item returns what the first yielding candidate in list order   *)
(* yields (an exact row's usable first-column value, else the first        *)
(* substring row's usable first-column value), and None for an empty       *)
(* table or when no candidate yields.                                      *)
(* Fails when a matched label repeats: the value then comes from the       *)
(* whole first row, not from its first column.                             *)
(***************************************************************************)
C7_CandidateOrder ==
    LookupDone =>
        /\ IsEmpty(arg.df) => ret = NoneV
        /\ ret \in ClaimedResults(arg.df, arg.candidates, 1)

(***************************************************************************)
(* order_statement_rows.                                                   *)
(***************************************************************************)
Range(f) == {f[i] : i \in DOMAIN f}

\* One pass of the loop over priorities, for the keyword p.  `picked` holds
\* the row positions in the order they were appended to ordered_rows and
\* added to `used`.
OrderStep(labels, picked, p) ==
    LET p_low   == Lower(p)
        exact   == {idx \in 1 .. Len(labels) :
                        idx \notin Range(picked) /\ Lower(labels[idx]) = p_low}
        picked1 == IF exact # {} THEN Append(picked, Min(exact)) ELSE picked
        partial == {idx \in 1 .. Len(labels) :
                        idx \notin Range(picked1) /\ Contains(p_low, Lower(labels[idx]))}
    IN  IF \E k \in 1 .. Len(picked1) : Lower(labels[picked1[k]]) = p_low
        THEN picked1
        ELSE IF partial # {} THEN Append(picked1, Min(partial)) ELSE picked1

\* The loop over priorities from keyword i on.
RECURSIVE OrderLoop(_, _, _, _)
OrderLoop(labels, priorities, i, picked) ==
    IF i > Len(priorities) THEN picked
    ELSE LET next == OrderStep(labels, picked, priorities[i])
         IN  IF next = picked
             THEN OrderLoop(labels, priorities, i + 1, picked)
             ELSE OrderLoop(labels, priorities, i + 1, next)

\* The positions in 1 .. n outside `used`, ascending.
RECURSIVE Remaining(_, _, _)
Remaining(n, used, idx) ==
    IF idx > n THEN <<>>
    ELSE (IF idx \in used THEN <<>> ELSE <<idx>>) \o Remaining(n, used, idx + 1)

\* The positions of the rows labelled `label`, ascending.
PositionsOf(df, label) == Remaining(Len(df.index), (1 .. Len(df.index)) \ RowsLabelled(df, label), 1)

\* df.loc[labels] for a list of labels: for each label in turn, every row
\* that carries it.
RECURSIVE LocList(_, _, _)
LocList(df, labels, k) ==
    IF k > Len(labels) THEN <<>>
    ELSE PositionsOf(df, labels[k]) \o LocList(df, labels, k + 1)

\* The table made of the rows of df at the given positions.
TakeRows(df, positions) ==
    Frame(df.columns,
          [k \in 1 .. Len(positions) |-> df.index[positions[k]]],
          [k \in 1 .. Len(positions) |-> df.data[positions[k]]])

order_statement_rows(df, priorities) ==
    IF IsEmpty(df) THEN EmptyFrame
    ELSE LET picked       == OrderLoop(df.index, priorities, 1, <<>>)
             all          == picked \o Remaining(Len(df.index), Range(picked), 1)
             ordered_rows == [k \in 1 .. Len(all) |-> df.index[all[k]]]
         IN  IF Len(ordered_rows) = 0 THEN df
             ELSE TakeRows(df, LocList(df, ordered_rows, 1))

(***************************************************************************)
(* Inputs of order_statement_rows: tables of up to MaxOrderRows rows of    *)
(* one reporting period, labels that may repeat, and up to MaxPriorities   *)
(* keywords.                                                               *)
(***************************************************************************)
MaxOrderRows == 3

MaxPriorities == 2

\* "Z"
L_Z ==
    <<"Z">>

\* "A"
L_A ==
    <<"A">>

\* "total revenue"
L_total_revenue ==
    <<"t", "o", "t", "a", "l", " ", "r", "e", "v", "e", "n", "u", "e">>

OrderLabels ==
    {L_Z, L_A, L_TotalRevenue, L_total_revenue, L_Revenue, L_TotalRevenueAdjusted}

OrderKeywords == {L_TotalRevenue, L_Z, L_Revenue}

OrderRows == {<<l, <<Fin(v, 1)>>>> : l \in OrderLabels, v \in {1, 2}}

OrderTables ==
    {Frame(<<"2024">>,
           [i \in 1 .. Len(rows) |-> rows[i][1]],
           [i \in 1 .. Len(rows) |-> rows[i][2]]) :
        rows \in UNION {[1 .. k -> OrderRows] : k \in 0 .. MaxOrderRows}}

PriorityLists == UNION {[1 .. k -> OrderKeywords] : k \in 0 .. MaxPriorities}

InitOrder ==
    /\ op = "order_statement_rows"
    /\ arg \in [df : OrderTables, priorities : PriorityLists]
    /\ ret = NoneV
    /\ pc = "call"
    /\ companies = {}

OrderStatementRowsCall ==
    /\ pc = "call"
    /\ op = "order_statement_rows"
    /\ ret' = order_statement_rows(arg.df, arg.priorities)
    /\ pc' = "done"
    /\ UNCHANGED <<op, arg, companies>>

NextOrder == OrderStatementRowsCall

SpecOrder == InitOrder /\ [][NextOrder]_vars

OrderDone == op = "order_statement_rows" /\ pc = "done"

\* The rows of a table, each a <<label, cells>> pair, and how often a table
\* holds one.
RowsOf(df) == {<<df.index[i], df.data[i]>> : i \in 1 .. Len(df.index)}

RowCount(df, row) ==
    Cardinality({i \in 1 .. Len(df.index) : <<df.index[i], df.data[i]>> = row})

\* The positions the keywords consumed, in keyword order.
Consumed == OrderLoop(arg.df.index, arg.priorities, 1, <<>>)

(***************************************************************************)
(* C8: for a non-empty table, whose labels need not be unique, the output  *)
(* of order_statement_rows holds exactly the multiset of rows of the       *)
(* input, and no row is consumed by two keywords.                          *)
(* Fails when a label repeats: df.loc[ordered_rows] selects by label, so   *)
(* each occurrence of the label selects every row that carries it.         *)
(***************************************************************************)
C8_SameMultisetOfRows ==
    (OrderDone /\ ~IsEmpty(arg.df)) =>
        /\ \A row \in RowsOf(arg.df) \cup RowsOf(ret) :
              RowCount(ret, row) = RowCount(arg.df, row)
        /\ \A i, j \in 1 .. Len(Consumed) : Consumed[i] = Consumed[j] => i = j

(***************************************************************************)
(* C9: the output holds first the rows the keywords consumed, in keyword   *)
(* order, then every other row in its original relative order, under the   *)
(* same columns; rows Z, Total Revenue, A with priorities Total Revenue, Z *)
(* come out as Total Revenue, Z, A.                                        *)
(* Fails with C8: with a repeated label the output is not a permutation    *)
(* of the rows.                                                            *)
(***************************************************************************)
C9_KeywordOrderThenOriginal ==
    (OrderDone /\ ~IsEmpty(arg.df)) =>
        ret = TakeRows(arg.df,
                       Consumed \o Remaining(Len(arg.df.index), Range(Consumed), 1))

\* One keyword as the documentation of order_statement_rows states it: the
\* first unconsumed row equal to the keyword, else the first unconsumed row
\* that contains it, else nothing.
DocumentedStep(labels, picked, p) ==
    LET p_low   == Lower(p)
        exact   == {idx \in 1 .. Len(labels) :
                        idx \notin Range(picked) /\ Lower(labels[idx]) = p_low}
        partial == {idx \in 1 .. Len(labels) :
                        idx \notin Range(picked) /\ Contains(p_low, Lower(labels[idx]))}
    IN  IF exact # {} THEN Append(picked, Min(exact))
        ELSE IF partial # {} THEN Append(picked, Min(partial))
        ELSE picked

RECURSIVE DocumentedLoop(_, _, _, _)
DocumentedLoop(labels, priorities, i, picked) ==
    IF i > Len(priorities) THEN picked
    ELSE DocumentedLoop(labels, priorities, i + 1,
                        DocumentedStep(labels, picked, priorities[i]))

(***************************************************************************)
(* C14: each keyword, in priority order, consumes the first unconsumed row *)
(* equal to it (case-insensitively) or, when no unconsumed row equals it,  *)
(* the first unconsumed row that contains it, also when a row equal to the *)
(* keyword was consumed by an earlier keyword.                             *)
(* Fails in that last case: `any(r.lower() == p_low for r in               *)
(* ordered_rows)` looks at every row placed so far, so the substring pass  *)
(* is skipped although the keyword's own exact pass found nothing.         *)
(***************************************************************************)
C14_ExactThenSubstring ==
    (OrderDone /\ ~IsEmpty(arg.df)) =>
        Consumed = DocumentedLoop(arg.df.index, arg.priorities, 1, <<>>)

(***************************************************************************)
(* dataframe_to_statement.                                                 *)
(***************************************************************************)
\* seq[:k] for k >= 0
Prefix(seq, k) == SubSeq(seq, 1, IF k < Len(seq) THEN k ELSE Len(seq))

\* The positions of the columns labelled `name`, ascending.
ColumnsLabelled(df, name) ==
    Remaining(Len(df.columns),
              {c \in 1 .. Len(df.columns) : df.columns[c] # name}, 1)

\* df[cols] for a list of column labels: for each label in turn, every
\* column that carries it.
RECURSIVE ColumnList(_, _, _)
ColumnList(df, cols, k) ==
    IF k > Len(cols) THEN <<>>
    ELSE ColumnsLabelled(df, cols[k]) \o ColumnList(df, cols, k + 1)

\* `if pd.isna(v):` -- for a container pd.isna gives an array, and the truth
\* value of an array of several elements raises ValueError.
IsNaTestRaises(v) == v.kind \in {"list", "array"} /\ Len(v.items) > 1

\* `if pd.isna(v):` when it does not raise: the test itself for a scalar, that
\* of its element for a one-element container, False for an empty one.
IsNaTest(v) ==
    IF v.kind \in {"list", "array"}
    THEN Len(v.items) = 1 /\ IsNA(v.items[1])
    ELSE IsNA(v)

\* The body of the loop over the cells of a row: what is appended to
\* clean_row for the cell v, or the exception raised.
CleanCell(v) ==
    IF IsNaTestRaises(v) THEN PyRaise
    ELSE IF IsNaTest(v) THEN NoneV
    ELSE IF IsFloat(v) THEN _clean_scalar(v)
    ELSE IF v.kind \in {"list", "array"}
         THEN (IF Len(v.items) = 0 \/ \A i \in 1 .. Len(v.items) : IsNA(v.items[i])
               THEN NoneV ELSE _clean_scalar(v.items[1]))
    ELSE v

\* dataframe_to_statement slicing the columns from the second one on
\* (df.columns[1:max_cols + 1]).
StatementFromSecondColumn(df, max_cols) ==
    IF IsEmpty(df) THEN NoneV
    ELSE LET cols       == SubSeq(df.columns, 2,
                                  IF max_cols + 1 < Len(df.columns)
                                  THEN max_cols + 1 ELSE Len(df.columns))
             sub        == ColumnList(df, cols, 1)
             clean_data == [r \in 1 .. Len(df.index) |->
                               [k \in 1 .. Len(sub) |-> CleanCell(df.data[r][sub[k]])]]
         IN  IF \E r \in 1 .. Len(df.index) : \E k \in 1 .. Len(sub) :
                    clean_data[r][k] = PyRaise
             THEN PyRaise
             ELSE [columns |-> cols, index |-> df.index, data |-> clean_data]

dataframe_to_statement(df, max_cols) ==
    IF IsEmpty(df) THEN NoneV
    ELSE LET cols       == Prefix(df.columns, max_cols)
             sub        == ColumnList(df, cols, 1)
             clean_data == [r \in 1 .. Len(df.index) |->
                               [k \in 1 .. Len(sub) |-> CleanCell(df.data[r][sub[k]])]]
         IN  IF \E r \in 1 .. Len(df.index) : \E k \in 1 .. Len(sub) :
                    clean_data[r][k] = PyRaise
             THEN PyRaise
             ELSE [columns |-> cols, index |-> df.index, data |-> clean_data]

(***************************************************************************)
(* Inputs of dataframe_to_statement: tables of up to MaxSerRows rows and   *)
(* MaxSerCols distinct reporting periods, and max_cols up to MaxSerCols.   *)
(***************************************************************************)
MaxSerRows == 2

MaxSerCols == 3

Periods == <<"2024", "2023", "2022", "2021", "2020">>

SerLabels == <<L_TotalRevenue, L_NetIncome, L_TotalDebt, L_TotalEquity>>

SerCells == {NaN, Fin(5, 1), Text("abc"), ListV(<<NaN, Fin(5, 1)>>)}

\* The tables of up to `rows` rows and `cols` reporting periods.
SerTables(rows, cols) ==
    UNION {{Frame(Prefix(Periods, c), Prefix(SerLabels, r), data) :
                data \in [1 .. r -> [1 .. c -> SerCells]]} :
           r \in 0 .. rows, c \in 0 .. cols}

InitSerialize ==
    /\ op = "dataframe_to_statement"
    /\ arg \in [df : SerTables(MaxSerRows, MaxSerCols), max_cols : 0 .. MaxSerCols]
    /\ ret = NoneV
    /\ pc = "call"
    /\ companies = {}

DataframeToStatementCall ==
    /\ pc = "call"
    /\ op = "dataframe_to_statement"
    /\ ret' = dataframe_to_statement(arg.df, arg.max_cols)
    /\ pc' = "done"
    /\ UNCHANGED <<op, arg, companies>>

NextSerialize == DataframeToStatementCall

SpecSerialize == InitSerialize /\ [][NextSerialize]_vars

SerializeDone == op = "dataframe_to_statement" /\ pc = "done"

\* min(max_cols, c)
Retained == IF arg.max_cols < Len(arg.df.columns) THEN arg.max_cols ELSE Len(arg.df.columns)

(***************************************************************************)
(* C10: dataframe_to_statement returns None for an empty table; for a      *)
(* table of c columns and r rows it returns the first min(max_cols, c)     *)
(* column labels, the r row labels, and r rows of exactly                  *)
(* min(max_cols, c) cells, a NaN cell being None in its own position.      *)
(* Fails with C15: a retained cell that is a container of two or more      *)
(* elements makes `if pd.isna(v)` raise ValueError, so nothing is          *)
(* returned.                                                               *)
(***************************************************************************)
C10_StatementShape ==
    SerializeDone =>
        /\ IsEmpty(arg.df) => ret = NoneV
        /\ ~IsEmpty(arg.df) =>
              /\ ret # PyRaise
              /\ ret.columns = Prefix(arg.df.columns, Retained)
              /\ ret.index = arg.df.index
              /\ Len(ret.data) = Len(arg.df.index)
              /\ \A r \in 1 .. Len(ret.data) :
                    /\ Len(ret.data[r]) = Retained
                    /\ \A k \in 1 .. Retained :
                          IsNA(arg.df.data[r][k]) => ret.data[r][k] = NoneV

(***************************************************************************)
(* The external provider.  One yfinance Ticker is what each access to it   *)
(* gives: `ticker` is the constructor yf.Ticker(ticker), `history` the     *)
(* call tk.history(period=...), the others the attributes of that name.    *)
(* An access gives a value (a table, None, something that is no table) or  *)
(* raises; an attribute can also be missing (AttributeError).              *)
(***************************************************************************)
NoAttribute == [kind |-> "noattr"]

\* A Python dict, as its keys and their values in insertion order.
Dict(keys, values) == [kind |-> "dict", keys |-> keys, values |-> values]

\* isinstance(x, pd.DataFrame)
IsDataFrame(x) == "columns" \in DOMAIN x

\* isinstance(x, dict)
IsDict(x) == "keys" \in DOMAIN x

\* getattr(tk, name, None): only a missing attribute gives the default, any
\* other exception raised by the access propagates.
GetAttrOrNone(v) == IF v = NoAttribute THEN NoneV ELSE v

\* tk.name: a missing attribute raises AttributeError.
GetAttr(v) == IF v = NoAttribute THEN PyRaise ELSE v

\* pd.isna(hist).all().all()
AllNA(df) ==
    \A r \in 1 .. Len(df.index) : \A c \in 1 .. Len(df.columns) : IsNA(df.data[r][c])

fetch_price_history(tk) ==
    IF tk.ticker = PyRaise THEN EmptyFrame
    ELSE LET hist == GetAttr(tk.history)
         IN  IF hist = PyRaise THEN EmptyFrame
             ELSE IF ~IsDataFrame(hist) THEN EmptyFrame
             ELSE IF IsEmpty(hist) THEN EmptyFrame
             ELSE IF AllNA(hist) THEN EmptyFrame
             ELSE hist

\* `x is None or not isinstance(x, pd.DataFrame) or x.empty`
NotATable(x) == x = NoneV \/ ~IsDataFrame(x) \/ IsEmpty(x)

\* One of the three statements of fetch_fundamentals: the attribute read
\* with getattr(tk, first, None), replaced by tk.second when it is no usable
\* table.  PyRaise when an access raises.
FetchStatement(first, second) ==
    LET x == GetAttrOrNone(first)
    IN  IF x = PyRaise THEN PyRaise
        ELSE IF NotATable(x) THEN GetAttr(second)
        ELSE x

\* `x if isinstance(x, pd.DataFrame) else pd.DataFrame()`
TableOrEmpty(x) == IF IsDataFrame(x) THEN x ELSE EmptyFrame

\* tk.info inside its try/except.
FetchInfo(tk) ==
    LET info == GetAttr(tk.info)
    IN  IF info = PyRaise THEN Dict(<<>>, <<>>) ELSE info

\* pd.DataFrame.from_dict(info, orient="index", columns=["value"])
FromDict(info) ==
    Frame(<<"value">>, info.keys, [i \in 1 .. Len(info.values) |-> <<info.values[i]>>])

fetch_fundamentals(tk) ==
    IF tk.ticker = PyRaise THEN PyRaise
    ELSE LET income   == FetchStatement(tk.income_stmt, tk.financials)
             balance  == FetchStatement(tk.balance_sheet, tk.balance_sheet)
             cashflow == FetchStatement(tk.cashflow, tk.cashflow)
             info     == FetchInfo(tk)
         IN  IF income = PyRaise \/ balance = PyRaise \/ cashflow = PyRaise
             THEN PyRaise
             ELSE [income   |-> TableOrEmpty(income),
                   balance  |-> TableOrEmpty(balance),
                   cashflow |-> TableOrEmpty(cashflow),
                   info     |-> IF IsDict(info) THEN FromDict(info) ELSE EmptyFrame]

(***************************************************************************)
(* The route handlers of src/main.py that read the provider.  A row of the *)
(* companies table is [id, owner_id, name, ticker, segment], name and      *)
(* segment kept as their characters; current_user is the id of the user    *)
(* the auth dependency resolved.  A handler returns                        *)
(* its response, Http404 when it raises HTTPException(404), or PyRaise     *)
(* when any other exception leaves it.                                     *)
(***************************************************************************)
Http404 == [kind |-> "http", status |-> 404, detail |-> "Company not found"]

\* db.query(Company).filter(Company.id == company_id,
\*                          Company.owner_id == current_user.id).first()
QueryCompany(table, company_id, current_user) ==
    LET found == {c \in table : c.id = company_id /\ c.owner_id = current_user}
    IN  IF found = {} THEN NoneV ELSE CHOOSE c \in found : TRUE

\* db.query(Company).filter(Company.owner_id == current_user.id)
OwnedBy(table, current_user) == {c \in table : c.owner_id = current_user}

Skip == [kind |-> "skip"]

\* One pass of the loop that builds info_dict: the value stored under the
\* key, or Skip when the pass ends in `continue`.
InfoValue(val) ==
    LET keep == IF val.kind \in {"list", "array"}
                THEN {i \in 1 .. Len(val.items) : ~IsNA(val.items[i])}
                ELSE {}
        v    == IF val.kind \in {"list", "array"}
                THEN (IF keep = {} THEN Skip ELSE val.items[Min(keep)])
                ELSE val
    IN  IF v = Skip THEN Skip
        ELSE IF IsNA(v) THEN Skip
        ELSE IF IsFloat(v) THEN (IF v.kind = "inf" THEN Skip ELSE v)
        ELSE v

RECURSIVE InfoKept(_, _)
InfoKept(info_df, i) ==
    IF i > Len(info_df.index) THEN <<>>
    ELSE LET c == CHOOSE k \in 1 .. Len(info_df.columns) : info_df.columns[k] = "value"
             v == InfoValue(info_df.data[i][c])
         IN  (IF v = Skip THEN <<>> ELSE <<<<info_df.index[i], v>>>>)
             \o InfoKept(info_df, i + 1)

\* info_dict of company_detail
InfoDict(info_df) ==
    IF IsEmpty(info_df) THEN Dict(<<>>, <<>>)
    ELSE LET kept == InfoKept(info_df, 1)
         IN  Dict([k \in 1 .. Len(kept) |-> kept[k][1]],
                  [k \in 1 .. Len(kept) |-> kept[k][2]])

\* Validation of one value against Optional[float]: None and a float pass, a
\* str is parsed as a number, anything else is a validation error.
ValidateOptionalFloat(v) ==
    IF v = NoneV THEN NoneV
    ELSE IF IsFloat(v) THEN v
    ELSE IF v.kind = "text" THEN ParseFloat(v.s)
    ELSE PyRaise

\* StatementResponse(columns=..., index=..., data=...): the validated model,
\* or PyRaise for the ValidationError.
StatementResponse(columns, index, data) ==
    LET valid == [r \in 1 .. Len(data) |->
                     [k \in 1 .. Len(data[r]) |-> ValidateOptionalFloat(data[r][k])]]
    IN  IF \E r \in 1 .. Len(data) : \E k \in 1 .. Len(data[r]) : valid[r][k] = PyRaise
        THEN PyRaise
        ELSE [columns |-> columns, index |-> index, data |-> valid]

to_statement(obj) ==
    IF obj = NoneV THEN NoneV
    ELSE StatementResponse(obj.columns, obj.index, obj.data)

\* max_cols of the three statements of the detail payload
DetailMaxCols == 3

company_detail(table, current_user, company_id, provider) ==
    LET c == QueryCompany(table, company_id, current_user)
    IN  IF c = NoneV THEN Http404
        ELSE
        LET fundamentals == fetch_fundamentals(provider[c.ticker])
        IN  IF fundamentals = PyRaise THEN PyRaise
            ELSE
            LET price_hist   == fetch_price_history(provider[c.ticker])
                ratios       == compute_ratios(fundamentals.income, fundamentals.balance,
                                               fundamentals.cashflow, price_hist)
                info_dict    == InfoDict(fundamentals.info)
                income_json  == dataframe_to_statement(fundamentals.income, DetailMaxCols)
                balance_json == dataframe_to_statement(fundamentals.balance, DetailMaxCols)
                cf_json      == dataframe_to_statement(fundamentals.cashflow, DetailMaxCols)
            IN  IF income_json = PyRaise \/ balance_json = PyRaise \/ cf_json = PyRaise
                THEN PyRaise
                ELSE
                LET income_statement == to_statement(income_json)
                    balance_sheet    == to_statement(balance_json)
                    cash_flow        == to_statement(cf_json)
                IN  IF income_statement = PyRaise \/ balance_sheet = PyRaise
                       \/ cash_flow = PyRaise
                    THEN PyRaise
                    ELSE [info             |-> info_dict,
                          ratios           |-> ratios,
                          income_statement |-> income_statement,
                          balance_sheet    |-> balance_sheet,
                          cash_flow        |-> cash_flow]

\* The CompanyMetrics of one company of the dashboard, PyRaise when a fetch
\* raises.
DashboardMetrics(c, provider) ==
    LET price_hist   == fetch_price_history(provider[c.ticker])
        fundamentals == fetch_fundamentals(provider[c.ticker])
    IN  IF fundamentals = PyRaise THEN PyRaise
        ELSE [id |-> c.id, name |-> c.name, ticker |-> c.ticker, segment |-> c.segment,
              ratios |-> compute_ratios(fundamentals.income, fundamentals.balance,
                                        fundamentals.cashflow, price_hist)]

\* The response holds one CompanyMetrics per company of the user, in the
\* order the query gave them, which the query leaves open.
get_dashboard(table, current_user, provider) ==
    LET mine         == OwnedBy(table, current_user)
        metrics_list == {DashboardMetrics(c, provider) : c \in mine}
    IN  IF mine = {} THEN [companies |-> {}]
        ELSE IF PyRaise \in metrics_list THEN PyRaise
        ELSE [companies |-> metrics_list]

(***************************************************************************)
(* Inputs of company_detail: one stored company, a request of either user  *)
(* for either id, and a provider whose statements are tables of one or two *)
(* rows over cells that are NaN, finite, infinite, text or a list.         *)
(***************************************************************************)
TickerOk == [kind |-> "ticker"]

\* "DHL"
N_DHL ==
    <<"D", "H", "L">>

\* "Parcel"
G_Parcel ==
    <<"P", "a", "r", "c", "e", "l">>

DetailCompany ==
    [id |-> 1, owner_id |-> 1, name |-> N_DHL, ticker |-> "DHL.DE", segment |-> G_Parcel]

DetailUsers == {1, 2}

DetailIds == {1, 2}

DetailCells ==
    {NaN, Fin(5, 1), Inf(1), Text("abc"), Text("7"), ListV(<<NaN, Fin(5, 1)>>)}

\* Four reporting periods, of which the payload keeps DetailMaxCols.
DetailIncomes ==
    {Frame(<<"2024", "2023", "2022", "2021">>, <<L_TotalRevenue>>,
           <<<<v, Fin(1, 1), Fin(2, 1), Fin(3, 1)>>>>) : v \in DetailCells}
    \cup {EmptyFrame}

DetailBalances ==
    {Frame(<<"2024">>, <<L_TotalDebt>>, <<<<v>>>>) : v \in DetailCells} \cup {EmptyFrame}

DetailCashflows ==
    {Frame(<<"2024">>, <<L_NetIncome, L_TotalEquity>>, <<<<v>>, <<w>>>>) :
        v \in DetailCells, w \in DetailCells}
    \cup {EmptyFrame}

DetailInfos == {Dict(<<"sector", "beta">>, <<Text("abc"), NaN>>)}

DetailTickers ==
    [ticker : {TickerOk}, history : {EmptyFrame},
     income_stmt : DetailIncomes, financials : {EmptyFrame},
     balance_sheet : DetailBalances, cashflow : DetailCashflows, info : DetailInfos]

InitDetail ==
    /\ op = "company_detail"
    /\ arg \in [current_user : DetailUsers, company_id : DetailIds,
                provider : [{DetailCompany.ticker} -> DetailTickers]]
    /\ ret = NoneV
    /\ pc = "call"
    /\ companies = {DetailCompany}

CompanyDetailCall ==
    /\ pc = "call"
    /\ op = "company_detail"
    /\ ret' = company_detail(companies, arg.current_user, arg.company_id, arg.provider)
    /\ pc' = "done"
    /\ UNCHANGED <<op, arg, companies>>

NextDetail == CompanyDetailCall

SpecDetail == InitDetail /\ [][NextDetail]_vars

DetailDone == op = "company_detail" /\ pc = "done"

\* The request names a company of the requesting user.
DetailFound == QueryCompany(companies, arg.company_id, arg.current_user) # NoneV

\* Every cell of the data grid of a statement is None or a finite float.
GridFinite(statement) ==
    statement # NoneV =>
        \A r \in 1 .. Len(statement.data) : \A k \in 1 .. Len(statement.data[r]) :
            statement.data[r][k] = NoneV \/ statement.data[r][k].kind = "fin"

(***************************************************************************)
(* C11: for every set of provider tables, tables with text cells included, *)
(* the detail request completes without error and every cell of the data   *)
(* grid of income_statement, balance_sheet and cash_flow is None or a      *)
(* finite number.                                                          *)
(* Fails on a text cell: dataframe_to_statement puts str(v) in the grid,   *)
(* which StatementResponse (data: List[List[Optional[float]]]) rejects     *)
(* unless the text parses as a number.                                     *)
(***************************************************************************)
C11_DetailGridFinite ==
    (DetailDone /\ DetailFound) =>
        /\ ret # PyRaise
        /\ GridFinite(ret.income_statement)
        /\ GridFinite(ret.balance_sheet)
        /\ GridFinite(ret.cash_flow)

(***************************************************************************)
(* Inputs of the provider fetches and of the requests that use them: every *)
(* access of the provider succeeds with a table, gives an empty table,     *)
(* None or a value that is no table, or raises.                            *)
(***************************************************************************)
FetchTickerName == "DHL.DE"

FetchCompany ==
    [id |-> 1, owner_id |-> 1, name |-> N_DHL, ticker |-> FetchTickerName,
     segment |-> G_Parcel]

FetchUsers == {1, 2}

FetchIncome ==
    Frame(<<"2024">>, <<L_TotalRevenue, L_NetIncome>>, <<<<Fin(1000, 1)>>, <<Fin(100, 1)>>>>)

FetchBalance ==
    Frame(<<"2024">>, <<L_TotalEquity, L_TotalDebt>>, <<<<Fin(500, 1)>>, <<Fin(200, 1)>>>>)

FetchCashflow == Frame(<<"2024">>, <<L_NetIncome>>, <<<<Fin(100, 1)>>>>)

HistoryOutcomes ==
    {PyRaise, Text("abc"), EmptyFrame,
     Frame(<<"Close">>, <<1, 2>>, <<<<NaN>>, <<NaN>>>>),
     Frame(<<"Close">>, <<1, 2>>, <<<<Fin(100, 1)>>, <<Fin(120, 1)>>>>)}

IncomeStmtOutcomes == {NoAttribute, PyRaise, NoneV, EmptyFrame, FetchIncome}

FinancialsOutcomes == {PyRaise, Text("abc"), FetchIncome}

BalanceSheetOutcomes == {NoAttribute, PyRaise, FetchBalance}

CashflowOutcomes == {PyRaise, Text("abc"), FetchCashflow}

InfoOutcomes == {PyRaise, Text("abc"), Dict(<<"sector", "beta">>, <<Text("abc"), Inf(1)>>)}

FetchTickers ==
    [ticker : {TickerOk, PyRaise}, history : HistoryOutcomes,
     income_stmt : IncomeStmtOutcomes, financials : FinancialsOutcomes,
     balance_sheet : BalanceSheetOutcomes, cashflow : CashflowOutcomes,
     info : InfoOutcomes]

FetchProviders == [{FetchTickerName} -> FetchTickers]

InitFetch ==
    /\ \/ /\ op \in {"fetch_price_history", "fetch_fundamentals"}
          /\ arg \in [ticker : {FetchTickerName}, provider : FetchProviders]
       \/ /\ op = "get_dashboard"
          /\ arg \in [current_user : FetchUsers, provider : FetchProviders]
    /\ ret = NoneV
    /\ pc = "call"
    /\ companies = {FetchCompany}

FetchPriceHistoryCall ==
    /\ pc = "call"
    /\ op = "fetch_price_history"
    /\ ret' = fetch_price_history(arg.provider[arg.ticker])
    /\ pc' = "done"
    /\ UNCHANGED <<op, arg, companies>>

FetchFundamentalsCall ==
    /\ pc = "call"
    /\ op = "fetch_fundamentals"
    /\ ret' = fetch_fundamentals(arg.provider[arg.ticker])
    /\ pc' = "done"
    /\ UNCHANGED <<op, arg, companies>>

GetDashboardCall ==
    /\ pc = "call"
    /\ op = "get_dashboard"
    /\ ret' = get_dashboard(companies, arg.current_user, arg.provider)
    /\ pc' = "done"
    /\ UNCHANGED <<op, arg, companies>>

NextFetch ==
    \/ FetchPriceHistoryCall
    \/ FetchFundamentalsCall
    \/ GetDashboardCall

SpecFetch == InitFetch /\ [][NextFetch]_vars

FetchDone(name) == op = name /\ pc = "done"

(***************************************************************************)
(* C12: whatever the provider does (tables, an exception on any access,    *)
(* data that is no table), fetch_price_history returns a table, possibly   *)
(* empty, fetch_fundamentals returns the four tables income, balance,      *)
(* cashflow and info, none of them None, and neither propagates an error,  *)
(* so a request that fetches (here the dashboard) does not fail.           *)
(* Fails in fetch_fundamentals: yf.Ticker and the statement attributes are *)
(* read outside any try, and getattr(..., None) absorbs only a missing     *)
(* attribute, so an exception of the provider leaves the function and the  *)
(* request.                                                                *)
(***************************************************************************)
C12_FetchNeverRaises ==
    /\ FetchDone("fetch_price_history") => IsDataFrame(ret)
    /\ FetchDone("fetch_fundamentals") =>
          /\ ret # PyRaise
          /\ \A k \in {"income", "balance", "cashflow", "info"} : IsDataFrame(ret[k])
    /\ FetchDone("get_dashboard") => ret # PyRaise

\* The first element of a container that is not absent, sanitized; None when
\* there is none.
FirstPresent(items) ==
    LET keep == {i \in 1 .. Len(items) : ~IsNA(items[i])}
    IN  IF keep = {} THEN NoneV ELSE _clean_scalar(items[Min(keep)])

(***************************************************************************)
(* C15: a retained cell that is a container, of any length, serializes     *)
(* without error to the sanitized value of its first non-absent element    *)
(* ([NaN, 5] gives 5), and to None when it holds no such element.          *)
(* Fails for a container of two or more elements: `if pd.isna(v)` takes    *)
(* the truth value of an array, which raises ValueError, so no row is      *)
(* produced.                                                               *)
(***************************************************************************)
C15_ContainerCell ==
    (SerializeDone /\ ~IsEmpty(arg.df)) =>
        \A r \in 1 .. Len(arg.df.index) : \A k \in 1 .. Retained :
            arg.df.data[r][k].kind \in {"list", "array"} =>
                /\ ret # PyRaise
                /\ ret.data[r][k] = FirstPresent(arg.df.data[r][k].items)

(***************************************************************************)
(* Serializing twice.  A table of up to MaxTripRows rows and MaxTripCols   *)
(* reporting periods, whose cells are NaN, a finite number or text, is     *)
(* serialized; a table is built again from the columns, index and data of  *)
(* the result, and serialized with the same max_cols.                      *)
(***************************************************************************)
MaxTripRows == 2

MaxTripCols == 2

TripCells == {NaN, Fin(5, 1), Text("abc")}

\* The non-empty tables of up to `rows` rows and `cols` reporting periods.
TripTables(rows, cols) ==
    UNION {{Frame(Prefix(Periods, c), Prefix(SerLabels, r), data) :
                data \in [1 .. r -> [1 .. c -> TripCells]]} :
           r \in 1 .. rows, c \in 1 .. cols}

\* pd.DataFrame(data, index=index, columns=columns) on a serialized
\* statement: a column holding only None and floats becomes a float column,
\* where None is NaN; a column that also holds text keeps its objects.
Reconstruct(statement) ==
    LET numeric(k) == \A r \in 1 .. Len(statement.data) :
                          statement.data[r][k] = NoneV \/ IsFloat(statement.data[r][k])
    IN  Frame(statement.columns, statement.index,
              [r \in 1 .. Len(statement.data) |->
                  [k \in 1 .. Len(statement.data[r]) |->
                      IF statement.data[r][k] = NoneV /\ numeric(k)
                      THEN NaN ELSE statement.data[r][k]]])

InitRoundTrip ==
    /\ op = "dataframe_to_statement"
    /\ arg \in [df : TripTables(MaxTripRows, MaxTripCols), max_cols : 0 .. MaxTripCols]
    /\ ret = NoneV
    /\ pc = "call"
    /\ companies = {}

\* The second serialization, of the table built from the first result.
SerializeAgainCall ==
    /\ pc = "done"
    /\ op = "dataframe_to_statement"
    /\ ret \notin {NoneV, PyRaise}
    /\ ret' = [first  |-> ret,
               second |-> dataframe_to_statement(Reconstruct(ret), arg.max_cols)]
    /\ pc' = "again"
    /\ UNCHANGED <<op, arg, companies>>

NextRoundTrip ==
    \/ DataframeToStatementCall
    \/ SerializeAgainCall

SpecRoundTrip == InitRoundTrip /\ [][NextRoundTrip]_vars

SerializedTwice == op = "dataframe_to_statement" /\ pc = "again"

(***************************************************************************)
(* C13 as stated: for any non-empty table of absent, finite and text       *)
(* cells and any max_cols, serializing the table built from the first      *)
(* serialization, with the same max_cols, gives a structure equal to the   *)
(* first.                                                                  *)
(* Fails for max_cols = 0: the first result has the row labels and no      *)
(* column, the table built from it is empty, and its serialization is      *)
(* None.                                                                   *)
(***************************************************************************)
C13_Original == SerializedTwice => ret.second = ret.first

(***************************************************************************)
(* C13 amended: the same for max_cols >= 1.                                *)
(***************************************************************************)
C13_Idempotent ==
    (SerializedTwice /\ arg.max_cols >= 1) => ret.second = ret.first

\* Two periods cut to one, a NaN cell above a text cell: the None of the
\* first result stays None in the second.
C13_Witness ==
    /\ SerializedTwice
    /\ arg.max_cols = 1
    /\ Len(arg.df.columns) = 2
    /\ Len(arg.df.index) = 2
    /\ arg.df.data[1][1] = NaN
    /\ arg.df.data[2][1] = Text("abc")
    /\ ret.first.data = <<<<NoneV>>, <<Text("abc")>>>>
    /\ ret.second = ret.first

(***************************************************************************)
(* The spreadsheet download: the statements are normalised, ordered by the *)
(* priority lists and written one per sheet.                               *)
(***************************************************************************)
INCOME_PRIORITIES ==
    <<
      \* "Total Revenue"
      <<"T", "o", "t", "a", "l", " ", "R", "e", "v", "e", "n", "u", "e">>,
      \* "Revenue"
      <<"R", "e", "v", "e", "n", "u", "e">>,
      \* "Operating Revenue"
      <<"O", "p", "e", "r", "a", "t", "i", "n", "g", " ", "R", "e", "v", "e",
        "n", "u", "e">>,
      \* "Net Revenue"
      <<"N", "e", "t", " ", "R", "e", "v", "e", "n", "u", "e">>,
      \* "Cost of Revenue"
      <<"C", "o", "s", "t", " ", "o", "f", " ", "R", "e", "v", "e", "n", "u",
        "e">>,
      \* "Cost of Goods Sold"
      <<"C", "o", "s", "t", " ", "o", "f", " ", "G", "o", "o", "d", "s", " ",
        "S", "o", "l", "d">>,
      \* "Gross Profit"
      <<"G", "r", "o", "s", "s", " ", "P", "r", "o", "f", "i", "t">>,
      \* "Operating Expense"
      <<"O", "p", "e", "r", "a", "t", "i", "n", "g", " ", "E", "x", "p", "e",
        "n", "s", "e">>,
      \* "Selling General and Administrative"
      <<"S", "e", "l", "l", "i", "n", "g", " ", "G", "e", "n", "e", "r", "a",
        "l", " ", "a", "n", "d", " ", "A", "d", "m", "i", "n", "i", "s", "t",
        "r", "a", "t", "i", "v", "e">>,
      \* "SG&A"
      <<"S", "G", "&", "A">>,
      \* "Research and Development"
      <<"R", "e", "s", "e", "a", "r", "c", "h", " ", "a", "n", "d", " ", "D",
        "e", "v", "e", "l", "o", "p", "m", "e", "n", "t">>,
      \* "R&D"
      <<"R", "&", "D">>,
      \* "EBITDA"
      <<"E", "B", "I", "T", "D", "A">>,
      \* "EBIT"
      <<"E", "B", "I", "T">>,
      \* "Operating Income"
      <<"O", "p", "e", "r", "a", "t", "i", "n", "g", " ", "I", "n", "c", "o",
        "m", "e">>,
      \* "Operating Profit"
      <<"O", "p", "e", "r", "a", "t", "i", "n", "g", " ", "P", "r", "o", "f",
        "i", "t">>,
      \* "Income Before Tax"
      <<"I", "n", "c", "o", "m", "e", " ", "B", "e", "f", "o", "r", "e", " ",
        "T", "a", "x">>,
      \* "Income Tax Expense"
      <<"I", "n", "c", "o", "m", "e", " ", "T", "a", "x", " ", "E", "x", "p",
        "e", "n", "s", "e">>,
      \* "Net Income"
      <<"N", "e", "t", " ", "I", "n", "c", "o", "m", "e">>,
      \* "Net Income Attributable to Parent"
      <<"N", "e", "t", " ", "I", "n", "c", "o", "m", "e", " ", "A", "t", "t",
        "r", "i", "b", "u", "t", "a", "b", "l", "e", " ", "t", "o", " ", "P",
        "a", "r", "e", "n", "t">>,
      \* "Net Income Common Stockholders"
      <<"N", "e", "t", " ", "I", "n", "c", "o", "m", "e", " ", "C", "o", "m",
        "m", "o", "n", " ", "S", "t", "o", "c", "k", "h", "o", "l", "d", "e",
        "r", "s">>,
      \* "Normalized Income"
      <<"N", "o", "r", "m", "a", "l", "i", "z", "e", "d", " ", "I", "n", "c",
        "o", "m", "e">>,
      \* "Normalized EBITDA"
      <<"N", "o", "r", "m", "a", "l", "i", "z", "e", "d", " ", "E", "B", "I",
        "T", "D", "A">>,
      \* "Diluted EPS"
      <<"D", "i", "l", "u", "t", "e", "d", " ", "E", "P", "S">>,
      \* "Basic EPS"
      <<"B", "a", "s", "i", "c", " ", "E", "P", "S">>
    >>

BALANCE_PRIORITIES ==
    <<
      \* "Cash"
      <<"C", "a", "s", "h">>,
      \* "Cash And Cash Equivalents"
      <<"C", "a", "s", "h", " ", "A", "n", "d", " ", "C", "a", "s", "h", " ",
        "E", "q", "u", "i", "v", "a", "l", "e", "n", "t", "s">>,
      \* "Total Current Assets"
      <<"T", "o", "t", "a", "l", " ", "C", "u", "r", "r", "e", "n", "t", " ",
        "A", "s", "s", "e", "t", "s">>,
      \* "Accounts Receivable"
      <<"A", "c", "c", "o", "u", "n", "t", "s", " ", "R", "e", "c", "e", "i",
        "v", "a", "b", "l", "e">>,
      \* "Inventory"
      <<"I", "n", "v", "e", "n", "t", "o", "r", "y">>,
      \* "Total Assets"
      <<"T", "o", "t", "a", "l", " ", "A", "s", "s", "e", "t", "s">>,
      \* "Total Current Liabilities"
      <<"T", "o", "t", "a", "l", " ", "C", "u", "r", "r", "e", "n", "t", " ",
        "L", "i", "a", "b", "i", "l", "i", "t", "i", "e", "s">>,
      \* "Accounts Payable"
      <<"A", "c", "c", "o", "u", "n", "t", "s", " ", "P", "a", "y", "a", "b",
        "l", "e">>,
      \* "Total Liabilities"
      <<"T", "o", "t", "a", "l", " ", "L", "i", "a", "b", "i", "l", "i", "t",
        "i", "e", "s">>,
      \* "Long Term Debt"
      <<"L", "o", "n", "g", " ", "T", "e", "r", "m", " ", "D", "e", "b",
        "t">>,
      \* "Total Debt"
      <<"T", "o", "t", "a", "l", " ", "D", "e", "b", "t">>,
      \* "Total Stockholder Equity"
      <<"T", "o", "t", "a", "l", " ", "S", "t", "o", "c", "k", "h", "o", "l",
        "d", "e", "r", " ", "E", "q", "u", "i", "t", "y">>,
      \* "Total Equity"
      <<"T", "o", "t", "a", "l", " ", "E", "q", "u", "i", "t", "y">>,
      \* "Retained Earnings"
      <<"R", "e", "t", "a", "i", "n", "e", "d", " ", "E", "a", "r", "n", "i",
        "n", "g", "s">>
    >>

CASH_PRIORITIES ==
    <<
      \* "Net Cash Provided By Operating Activities"
      <<"N", "e", "t", " ", "C", "a", "s", "h", " ", "P", "r", "o", "v", "i",
        "d", "e", "d", " ", "B", "y", " ", "O", "p", "e", "r", "a", "t", "i",
        "n", "g", " ", "A", "c", "t", "i", "v", "i", "t", "i", "e", "s">>,
      \* "Operating Cash Flow"
      <<"O", "p", "e", "r", "a", "t", "i", "n", "g", " ", "C", "a", "s", "h",
        " ", "F", "l", "o", "w">>,
      \* "Net Cash Flow From Operating Activities"
      <<"N", "e", "t", " ", "C", "a", "s", "h", " ", "F", "l", "o", "w", " ",
        "F", "r", "o", "m", " ", "O", "p", "e", "r", "a", "t", "i", "n", "g",
        " ", "A", "c", "t", "i", "v", "i", "t", "i", "e", "s">>,
      \* "Capital Expenditures"
      <<"C", "a", "p", "i", "t", "a", "l", " ", "E", "x", "p", "e", "n", "d",
        "i", "t", "u", "r", "e", "s">>,
      \* "Investing Cash Flow"
      <<"I", "n", "v", "e", "s", "t", "i", "n", "g", " ", "C", "a", "s", "h",
        " ", "F", "l", "o", "w">>,
      \* "Net Cash Provided By Financing Activities"
      <<"N", "e", "t", " ", "C", "a", "s", "h", " ", "P", "r", "o", "v", "i",
        "d", "e", "d", " ", "B", "y", " ", "F", "i", "n", "a", "n", "c", "i",
        "n", "g", " ", "A", "c", "t", "i", "v", "i", "t", "i", "e", "s">>,
      \* "Free Cash Flow"
      <<"F", "r", "e", "e", " ", "C", "a", "s", "h", " ", "F", "l", "o",
        "w">>,
      \* "Dividends Paid"
      <<"D", "i", "v", "i", "d", "e", "n", "d", "s", " ", "P", "a", "i",
        "d">>,
      \* "Net Change In Cash"
      <<"N", "e", "t", " ", "C", "h", "a", "n", "g", "e", " ", "I", "n", " ",
        "C", "a", "s", "h">>,
      \* "Cash Flow"
      <<"C", "a", "s", "h", " ", "F", "l", "o", "w">>
    >>

\* _norm_df: the columns that are not all NA, then the rows that are not all
\* NA in those columns.
_norm_df(df) ==
    IF IsEmpty(df) THEN EmptyFrame
    ELSE LET cols   == Remaining(Len(df.columns),
                                 {c \in 1 .. Len(df.columns) :
                                     \A r \in 1 .. Len(df.index) : IsNA(df.data[r][c])}, 1)
             byCols == Frame([k \in 1 .. Len(cols) |-> df.columns[cols[k]]],
                             df.index,
                             [r \in 1 .. Len(df.index) |->
                                 [k \in 1 .. Len(cols) |-> df.data[r][cols[k]]]])
             rows   == Remaining(Len(df.index),
                                 {r \in 1 .. Len(df.index) :
                                     \A k \in 1 .. Len(cols) : IsNA(byCols.data[r][k])}, 1)
         IN  TakeRows(byCols, rows)

\* `order_statement_rows(df_norm, priorities) if not df_norm.empty else
\* pd.DataFrame()`
OrderedOrEmpty(df_norm, priorities) ==
    IF IsEmpty(df_norm) THEN EmptyFrame ELSE order_statement_rows(df_norm, priorities)

\* write_sheet: what the sheet `name` holds, its formats aside: a note for
\* an empty table, else the table with its row labels as first column.
write_sheet(name, df) ==
    IF IsEmpty(df) THEN [sheet |-> name, note |-> TRUE, table |-> EmptyFrame]
    ELSE [sheet |-> name, note |-> FALSE,
          table |-> Frame(<<"__line__">> \o df.columns, df.index,
                          [r \in 1 .. Len(df.index) |->
                              <<[kind |-> "label", s |-> df.index[r]]>> \o df.data[r]])]

\* The "Company Info" sheet: the key/value pairs, or None when no sheet is
\* written.
InfoSheet(info_df) ==
    IF IsEmpty(info_df) THEN NoneV
    ELSE IF Len(info_df.columns) = 1 /\ info_df.columns[1] = "value"
         THEN [sheet |-> "Company Info",
               pairs |-> [i \in 1 .. Len(info_df.index) |->
                             <<info_df.index[i], info_df.data[i][1]>>]]
         ELSE [sheet |-> "Company Info",
               pairs |-> [i \in 1 .. Len(info_df.index) |->
                             <<info_df.index[i], [kind |-> "joined", items |-> info_df.data[i]]>>]]

\* f"{c.name.replace(' ', '_')}_financials.xlsx"
Filename(name) ==
    [i \in 1 .. Len(name) |-> IF name[i] = " " THEN "_" ELSE name[i]]
    \o <<"_", "f", "i", "n", "a", "n", "c", "i", "a", "l", "s", ".", "x", "l", "s", "x">>

download_company_excel(table, current_user, company_id, provider) ==
    LET c == QueryCompany(table, company_id, current_user)
    IN  IF c = NoneV THEN Http404
        ELSE
        LET fundamentals == fetch_fundamentals(provider[c.ticker])
        IN  IF fundamentals = PyRaise THEN PyRaise
            ELSE
            LET ordered_income  == OrderedOrEmpty(_norm_df(fundamentals.income),
                                                  INCOME_PRIORITIES)
                ordered_balance == OrderedOrEmpty(_norm_df(fundamentals.balance),
                                                  BALANCE_PRIORITIES)
                ordered_cash    == OrderedOrEmpty(_norm_df(fundamentals.cashflow),
                                                  CASH_PRIORITIES)
            IN  [kind     |-> "xlsx",
                 filename |-> Filename(c.name),
                 sheets   |-> <<write_sheet("Income Statement", ordered_income),
                                write_sheet("Balance Sheet", ordered_balance),
                                write_sheet("Cash Flow", ordered_cash)>>,
                 info     |-> InfoSheet(fundamentals.info)]

(***************************************************************************)
(* The companies table and its routes.  Each request runs to its response  *)
(* in one step: op, arg and ret hold the last request and its response.    *)
(***************************************************************************)
\* The code point of a character of a name (space, "&", A-Z, a-z).
CharCode(c) ==
    IF c = " " THEN 32
    ELSE IF c = "&" THEN 38
    ELSE IF \E i \in 1 .. 26 : UpperChars[i] = c
         THEN 64 + (CHOOSE i \in 1 .. 26 : UpperChars[i] = c)
    ELSE 96 + (CHOOSE i \in 1 .. 26 : LowerChars[i] = c)

\* a < b for two strings, character by character.
RECURSIVE StrLess(_, _, _)
StrLess(a, b, i) ==
    IF i > Len(b) THEN FALSE
    ELSE IF i > Len(a) THEN TRUE
    ELSE IF CharCode(a[i]) # CharCode(b[i]) THEN CharCode(a[i]) < CharCode(b[i])
    ELSE StrLess(a, b, i + 1)

\* .order_by(Company.segment, Company.name): c sorts strictly before d.
OrderedBefore(c, d) ==
    \/ StrLess(c.segment, d.segment, 1)
    \/ c.segment = d.segment /\ StrLess(c.name, d.name, 1)

\* CompanyOut: id, name, ticker, segment
CompanyOut(c) ==
    [id |-> c.id, name |-> c.name, ticker |-> c.ticker, segment |-> c.segment]

\* The lists list_companies can return: the companies of the user in an
\* order that respects (segment, name); rows with equal keys come in any
\* order.
list_companies(table, current_user) ==
    LET mine == OwnedBy(table, current_user)
        n    == Cardinality(mine)
    IN  {[k \in 1 .. n |-> CompanyOut(rows[k])] :
            rows \in {f \in [1 .. n -> mine] :
                         /\ \A i, j \in 1 .. n : f[i] = f[j] => i = j
                         /\ \A i, j \in 1 .. n : i < j => ~OrderedBefore(f[j], f[i])}}

\* The row create_company adds; `id` is the primary key the database gives.
create_company(company_in, current_user, id) ==
    [id |-> id, owner_id |-> current_user, name |-> company_in.name,
     ticker |-> company_in.ticker, segment |-> company_in.segment]

\* delete_company with a query that leaves out the filter on owner_id.
DeleteCompanyAnyOwner(table, current_user, company_id) ==
    LET found == {c \in table : c.id = company_id}
    IN  IF found = {} THEN [companies |-> table, response |-> Http404]
        ELSE [companies |-> table \ {CHOOSE c \in found : TRUE}, response |-> NoneV]

\* delete_company: the table after the request and the response (None for
\* 204).
delete_company(table, current_user, company_id) ==
    LET company == QueryCompany(table, company_id, current_user)
    IN  IF company = NoneV THEN [companies |-> table, response |-> Http404]
        ELSE [companies |-> table \ {company}, response |-> NoneV]

(***************************************************************************)
(* Requests: up to MaxCompanies stored companies, two users.               *)
(***************************************************************************)
MaxCompanies == 3

RepoUsers == {1, 2}

RepoIds == 1 .. MaxCompanies

\* "UPS"
N_UPS ==
    <<"U", "P", "S">>

\* "Freight"
G_Freight ==
    <<"F", "r", "e", "i", "g", "h", "t">>

CompanyIns ==
    {[name |-> N_DHL, ticker |-> FetchTickerName, segment |-> G_Parcel],
     [name |-> N_UPS, ticker |-> FetchTickerName, segment |-> G_Parcel],
     [name |-> N_UPS, ticker |-> FetchTickerName, segment |-> G_Freight]}

\* A provider that answers every access and has no statement to give.
RepoProvider ==
    [t \in {FetchTickerName} |->
        [ticker |-> TickerOk, history |-> EmptyFrame,
         income_stmt |-> EmptyFrame, financials |-> EmptyFrame,
         balance_sheet |-> EmptyFrame, cashflow |-> EmptyFrame,
         info |-> Dict(<<"sector">>, <<Text("abc")>>)]]

InitRepo ==
    /\ op = "startup"
    /\ arg = NoneV
    /\ ret = NoneV
    /\ pc = "idle"
    /\ companies = {}

ListCompaniesRequest ==
    \E u \in RepoUsers : \E rows \in list_companies(companies, u) :
        /\ op' = "list_companies"
        /\ arg' = [current_user |-> u]
        /\ ret' = rows
        /\ pc' = "done"
        /\ UNCHANGED companies

\* The database gives the new row a primary key no stored row has.
CreateCompanyRequest ==
    \E u \in RepoUsers, company_in \in CompanyIns, id \in RepoIds :
        /\ Cardinality(companies) < MaxCompanies
        /\ \A c \in companies : c.id # id
        /\ op' = "create_company"
        /\ arg' = [current_user |-> u, company_in |-> company_in]
        /\ companies' = companies \cup {create_company(company_in, u, id)}
        /\ ret' = CompanyOut(create_company(company_in, u, id))
        /\ pc' = "done"

DeleteCompanyRequest ==
    \E u \in RepoUsers, id \in RepoIds :
        /\ op' = "delete_company"
        /\ arg' = [current_user |-> u, company_id |-> id]
        /\ companies' = delete_company(companies, u, id).companies
        /\ ret' = delete_company(companies, u, id).response
        /\ pc' = "done"

CompanyDetailRequest ==
    \E u \in RepoUsers, id \in RepoIds :
        /\ op' = "company_detail"
        /\ arg' = [current_user |-> u, company_id |-> id]
        /\ ret' = company_detail(companies, u, id, RepoProvider)
        /\ pc' = "done"
        /\ UNCHANGED companies

DownloadCompanyExcelRequest ==
    \E u \in RepoUsers, id \in RepoIds :
        /\ op' = "download_company_excel"
        /\ arg' = [current_user |-> u, company_id |-> id]
        /\ ret' = download_company_excel(companies, u, id, RepoProvider)
        /\ pc' = "done"
        /\ UNCHANGED companies

NextRepo ==
    \/ ListCompaniesRequest
    \/ CreateCompanyRequest
    \/ DeleteCompanyRequest
    \/ CompanyDetailRequest
    \/ DownloadCompanyExcelRequest

SpecRepo == InitRepo /\ [][NextRepo]_vars

\* The user of the request owns a stored company of the requested id.
Owns(table, u, id) == \E c \in table : c.id = id /\ c.owner_id = u

(***************************************************************************)
(* C16: companies stay scoped by owner over every sequence of requests.    *)
(* Each request does what keeps it so: a create adds one company, owned by *)
(* the requesting user, under an id no stored company has; a list returns  *)
(* exactly the stored companies of the requesting user, which are those    *)
(* the user created and has not deleted; a delete, detail or download for  *)
(* an id that is not stored or is owned by another user answers 404 and    *)
(* leaves the table as it was; a delete of an own company removes that     *)
(* company and no other.                                                   *)
(***************************************************************************)
C16_OwnerScoped ==
    [][/\ op' = "create_company" =>
             \E c \in companies' :
                 /\ c.owner_id = arg'.current_user
                 /\ \A d \in companies : d.id # c.id
                 /\ companies' = companies \cup {c}
       /\ op' = "list_companies" =>
             /\ {ret'[k] : k \in 1 .. Len(ret')}
                    = {CompanyOut(c) : c \in {d \in companies : d.owner_id = arg'.current_user}}
             /\ Len(ret') = Cardinality({d \in companies : d.owner_id = arg'.current_user})
             /\ companies' = companies
       /\ (/\ op' \in {"delete_company", "company_detail", "download_company_excel"}
           /\ ~Owns(companies, arg'.current_user, arg'.company_id)) =>
             /\ ret' = Http404
             /\ companies' = companies
       /\ (op' = "delete_company" /\ Owns(companies, arg'.current_user, arg'.company_id)) =>
             /\ ret' # Http404
             /\ companies' = {c \in companies : c.id # arg'.company_id}
       /\ \A c, d \in companies' : c.id = d.id => c = d]_vars

\* User 2 asked to delete a company of user 1 while owning one: the answer
\* is 404 and both companies are still stored.
C16_Witness ==
    /\ op = "delete_company"
    /\ pc = "done"
    /\ arg.current_user = 2
    /\ ret = Http404
    /\ \E c \in companies : c.id = arg.company_id /\ c.owner_id = 1
    /\ \E c \in companies : c.owner_id = 2

====
